---- MODULE Spec2Model ----
(***************************************************************************)
(* A model of biotransformers/wrappers/esm_wrappers.py: the ESMWrapper     *)
(* adapter.  The constructor is modelled statement by statement (pc), the  *)
(* properties and the two methods as one action each.                      *)
(*                                                                         *)
(* Python values: None is the empty tuple and a present value x is <<x>>   *)
(* (an Optional); a list is a sequence; a 2-D integer tensor is a sequence *)
(* of rows; a tensor of floating-point values the model computes is kept   *)
(* by its shape only.  Token IDs are 0-based as in Python.                 *)
(***************************************************************************)
EXTENDS Integers, Sequences, FiniteSets, TLC

VARIABLES
    pc,         \* position in ESMWrapper.__init__, "ready" once it returned
    args,       \* the arguments of __init__: model_dir, device, multi_gpu
    model_dir,  \* the local variable model_dir of __init__
    self,       \* the fields of the ESMWrapper object
    stdout,     \* the lines printed by the operation that ran last
    trace,      \* the calls made to collaborators, in order
    call,       \* the arguments of the method call that ran last
    ret         \* what the method call that ran last returned

vars == <<pc, args, model_dir, self, stdout, trace, call, ret>>

None == <<>>
Some(x) == <<x>>

----------------------------------------------------------------------------
(* Bounds of the model *)

MaxSeqs == 2        \* sequences in one sequences_list
MaxSeqLen == 2      \* residues in one sequence
MaxTokens == 2      \* tokens in one tokens_list
MaxVocabList == 2   \* tokens in one vocab_token_list

----------------------------------------------------------------------------
(* Module-level names *)

esm_list == <<"esm1_t34_670M_UR100", "esm1_t6_43M_UR50S", "esm1b_t33_650M_UR50S">>

DEFAULT_MODEL == "esm1_t34_670M_UR100"

Range(s) == {s[i] : i \in 1..Len(s)}

\* Python's "x in list"
In(x, list) == \E i \in 1..Len(list) : list[i] = x

----------------------------------------------------------------------------
(* The esm library, as far as the wrapper reads it.  The residue letters   *)
(* are cut to the first three of the library's list; the special tokens    *)
(* and their places are the library's.                                     *)

StandardToks == <<"L", "A", "G">>

IsEsm1b(name) == name = "esm1b_t33_650M_UR50S"

\* esm.data.Alphabet.all_toks of the model's alphabet
AllToks(name) ==
    IF IsEsm1b(name)
    THEN <<"<cls>", "<pad>", "<eos>", "<unk>">> \o StandardToks \o <<"<mask>">>
    ELSE <<"<null_0>", "<pad>", "<eos>", "<unk>">> \o StandardToks
             \o <<"<cls>", "<mask>", "<sep>">>

\* "tok in tok_to_idx" for tok_to_idx = {tok: i for i, tok in enumerate(all_toks)}
HasKey(all_toks, tok) == In(tok, all_toks)

\* tok_to_idx[tok] for a key tok: the 0-based place of its last occurrence
\* (a later item of a dict comprehension overwrites an earlier one)
IdxOf(all_toks, tok) ==
    (CHOOSE i \in 1..Len(all_toks) :
        /\ all_toks[i] = tok
        /\ \A j \in (i+1)..Len(all_toks) : all_toks[j] # tok) - 1

\* the keys of tok_to_idx in insertion order: all_toks without repeats
RECURSIVE Keys(_)
Keys(all_toks) ==
    IF all_toks = <<>> THEN <<>>
    ELSE LET rest == Keys(SubSeq(all_toks, 1, Len(all_toks) - 1))
             last == all_toks[Len(all_toks)]
         IN IF In(last, rest) THEN rest ELSE Append(rest, last)

Alphabet(name) ==
    [ all_toks    |-> AllToks(name),
      padding_idx |-> IdxOf(AllToks(name), "<pad>"),
      mask_idx    |-> IdxOf(AllToks(name), "<mask>"),
      cls_idx     |-> IdxOf(AllToks(name), "<cls>") ]

\* model.num_layers and model.args.embed_dim of the pretrained models
NumLayers(name) ==
    CASE name = "esm1_t34_670M_UR100"  -> 34
      [] name = "esm1_t6_43M_UR50S"    -> 6
      [] name = "esm1b_t33_650M_UR50S" -> 33

EmbedDim(name) ==
    CASE name = "esm1_t34_670M_UR100"  -> 1280
      [] name = "esm1_t6_43M_UR50S"    -> 768
      [] name = "esm1b_t33_650M_UR50S" -> 1280

\* esm.pretrained.load_model_and_alphabet(name): the model is on the cpu and
\* not wrapped
LoadModelAndAlphabet(name) ==
    [ model    |-> [ name |-> name, num_layers |-> NumLayers(name),
                     embed_dim |-> EmbedDim(name),
                     alphabet_size |-> Len(AllToks(name)),
                     device |-> "cpu", data_parallel |-> FALSE ],
      alphabet |-> Alphabet(name) ]

\* alphabet.get_batch_converter(): a converter bound to the alphabet
GetBatchConverter(alphabet) == [ alphabet |-> alphabet ]

Max(S) == CHOOSE m \in S : \A x \in S : x <= m

MaxLen(strs) == Max({Len(strs[i]) : i \in 1..Len(strs)})

\* batch_converter(raw_batch), third result: one row per sequence, as wide as
\* the longest sequence and the begin token; each row is <cls>, then the IDs
\* of its residues, then padding
BatchConvert(converter, strs) ==
    LET alphabet == converter.alphabet
        width == MaxLen(strs) + 1
    IN [i \in 1..Len(strs) |->
          [j \in 1..width |->
              IF j = 1 THEN alphabet.cls_idx
              ELSE IF j - 1 <= Len(strs[i])
                   THEN IdxOf(alphabet.all_toks, strs[i][j - 1])
                   ELSE alphabet.padding_idx]]

\* model(tokens, repr_layers=...): logits and representations have one entry
\* per row and position of tokens; kept by shape
Forward(model, tokens, repr_layers) ==
    LET n == Len(tokens)
        t == Len(tokens[1])
    IN [ logits |-> <<n, t, model.alphabet_size>>,
         representations |-> [l \in repr_layers |-> <<n, t, model.embed_dim>>] ]

\* DataParallel(model)
DataParallel(model) == [model EXCEPT !.data_parallel = TRUE]

\* module.to(device)
To(model, device) == [model EXCEPT !.device = device]

----------------------------------------------------------------------------
(* Objects: a Python object is the function from its assigned attribute    *)
(* names to their values.                                                  *)

NewObject == [a \in {} |-> None]

SetAttr(obj, name, v) ==
    [a \in (DOMAIN obj) \cup {name} |-> IF a = name THEN v ELSE obj[a]]

----------------------------------------------------------------------------
(* Inputs *)

ModelDirInputs == Range(esm_list) \cup {"esm1_t12_85M_UR50S", "my_model"}

Devices == {"cpu", "cuda"}

\* tokens a caller may name: a residue, a special token only some alphabets
\* hold, and a letter no alphabet holds
TokenInputs == {"A", "<sep>", "J"}

RECURSIVE SeqsUpTo(_, _)
SeqsUpTo(S, n) ==
    IF n = 0 THEN {<<>>}
    ELSE LET shorter == SeqsUpTo(S, n - 1)
         IN shorter \cup {Append(s, x) : s \in {t \in shorter : Len(t) = n - 1}, x \in S}

\* the values self.vocab_token_list may hold: None or a list of tokens
VocabTokenLists == {None} \cup {Some(l) : l \in SeqsUpTo(TokenInputs, MaxVocabList)}

NoCall == [op |-> "", sequences_list |-> <<>>, tokens_list |-> <<>>, model_inputs |-> None]
NoReturn == [exc |-> "", value |-> None]

Returned(v) == [exc |-> "", value |-> v]
Raised(e) == [exc |-> e, value |-> None]

PropertyCall(name) == [NoCall EXCEPT !.op = name]

----------------------------------------------------------------------------
(* ESMWrapper.__init__ *)

Recognized(name) == In(name, esm_list)

\* a fallback to another entry of esm_list than DEFAULT_MODEL
ValidatedModelDir_WrongDefault(name) ==
    IF Recognized(name) THEN name ELSE esm_list[Len(esm_list)]

\* lines 38-43: the name the constructor goes on with
ValidatedModelDir(name) == IF Recognized(name) THEN name ELSE DEFAULT_MODEL

\* lines 39-42: what the constructor prints for the name
ValidationWarning(name) ==
    IF Recognized(name)
    THEN <<>>
    ELSE << <<"Model dir not recognized. Using as default", name, DEFAULT_MODEL>> >>

Validate ==
    /\ pc = "start"
    /\ model_dir' = ValidatedModelDir(args.model_dir)
    /\ stdout' = stdout \o ValidationWarning(args.model_dir)
    /\ pc' = "super"
    /\ UNCHANGED <<args, self, trace, call, ret>>

\* TransformersWrapper.__init__(model_dir, _device, multi_gpu): the base class
\* keeps its arguments; vocab_token_list, which this constructor does not
\* pass, is whatever the base class or a later assignment makes it
TransformersWrapperInit(obj, name, device, multi_gpu, vtl) ==
    SetAttr(SetAttr(SetAttr(SetAttr(obj,
        "model_id", name), "_device", device), "multi_gpu", multi_gpu),
        "vocab_token_list", vtl)

SuperInit ==
    /\ pc = "super"
    /\ \E vtl \in VocabTokenLists :
          self' = TransformersWrapperInit(self, model_dir, args.device, args.multi_gpu, vtl)
    /\ trace' = Append(trace, <<"TransformersWrapper.__init__", model_dir>>)
    /\ pc' = "load"
    /\ UNCHANGED <<args, model_dir, stdout, call, ret>>

LoadModel ==
    /\ pc = "load"
    /\ LET loaded == LoadModelAndAlphabet(model_dir)
       IN self' = SetAttr(SetAttr(self, "model", loaded.model), "alphabet", loaded.alphabet)
    /\ trace' = Append(trace, <<"load_model_and_alphabet", model_dir>>)
    /\ pc' = "dims"
    /\ UNCHANGED <<args, model_dir, stdout, call, ret>>

\* lines 48-49; a DataParallel wrapper does not have its module's attributes
ReadDims ==
    /\ pc = "dims"
    /\ IF self["model"].data_parallel
       THEN /\ pc' = "raised"
            /\ ret' = Raised("AttributeError")
            /\ UNCHANGED <<self, trace>>
       ELSE /\ self' = SetAttr(SetAttr(self, "num_layers", self["model"].num_layers),
                               "hidden_size", self["model"].embed_dim)
            /\ trace' = trace \o << <<"read", "model.num_layers">>,
                                    <<"read", "model.args.embed_dim">> >>
            /\ pc' = "place"
            /\ UNCHANGED ret
    /\ UNCHANGED <<args, model_dir, stdout, call>>

\* the DataParallel branch without its .to(device)
PlacedModel_NoMove(model, multi_gpu, device) ==
    IF multi_gpu THEN DataParallel(model) ELSE To(model, device)

\* lines 50-53: the model the constructor keeps
PlacedModel(model, multi_gpu, device) ==
    IF multi_gpu THEN To(DataParallel(model), device) ELSE To(model, device)

\* lines 50-53: the calls it makes for that
PlacingCalls(multi_gpu, device) ==
    IF multi_gpu THEN << <<"DataParallel", "model">>, <<"to", device>> >>
    ELSE << <<"to", device>> >>

PlaceModel ==
    /\ pc = "place"
    /\ self' = SetAttr(self, "model",
                       PlacedModel(self["model"], self["multi_gpu"], self["_device"]))
    /\ trace' = trace \o PlacingCalls(self["multi_gpu"], self["_device"])
    /\ pc' = "converter"
    /\ UNCHANGED <<args, model_dir, stdout, call, ret>>

SetBatchConverter ==
    /\ pc = "converter"
    /\ self' = SetAttr(self, "batch_converter", GetBatchConverter(self["alphabet"]))
    /\ trace' = Append(trace, <<"get_batch_converter", "alphabet">>)
    /\ pc' = "ready"
    /\ UNCHANGED <<args, model_dir, stdout, call, ret>>

----------------------------------------------------------------------------
(* Properties *)

\* TransformersModelProperties(num_sep_tokens=1, begin_token=True, end_token=False)
model_property(obj) == [num_sep_tokens |-> 1, begin_token |-> TRUE, end_token |-> FALSE]

begin_token(obj) == "<cls>"

\* an end token as BERT-like tokenizers have one
end_token_Eos(obj) == "<eos>"

end_token(obj) == ""

model_vocab_tokens(obj) ==
    IF obj["vocab_token_list"] # None
    THEN obj["vocab_token_list"][1]
    ELSE obj["alphabet"].all_toks

model_vocabulary(obj) == Keys(obj["alphabet"].all_toks)

vocab_size(obj) == Len(Keys(obj["alphabet"].all_toks))

pad_token(obj) == obj["alphabet"].all_toks[obj["alphabet"].padding_idx + 1]

mask_token(obj) == obj["alphabet"].all_toks[obj["alphabet"].mask_idx + 1]

embeddings_size(obj) == obj["hidden_size"]

\* token_to_id(x) = alphabet.tok_to_idx[x], for a key x
token_to_id(obj, x) == IdxOf(obj["alphabet"].all_toks, x)

\* whether token_to_id(x) raises KeyError
token_to_id_raises(obj, x) == ~HasKey(obj["alphabet"].all_toks, x)

\* [self.token_to_id(tok) for tok in self.model_vocab_tokens]
model_vocab_ids(obj) ==
    LET toks == model_vocab_tokens(obj)
    IN IF \E i \in 1..Len(toks) : token_to_id_raises(obj, toks[i])
       THEN Raised("KeyError")
       ELSE Returned([i \in 1..Len(toks) |-> token_to_id(obj, toks[i])])

GetModelProperty ==
    /\ pc = "ready"
    /\ call' = PropertyCall("model_property")
    /\ ret' = Returned(model_property(self))
    /\ stdout' = <<>>
    /\ UNCHANGED <<pc, args, model_dir, self, trace>>

GetBeginToken ==
    /\ pc = "ready"
    /\ call' = PropertyCall("begin_token")
    /\ ret' = Returned(begin_token(self))
    /\ stdout' = <<>>
    /\ UNCHANGED <<pc, args, model_dir, self, trace>>

GetEndToken ==
    /\ pc = "ready"
    /\ call' = PropertyCall("end_token")
    /\ ret' = Returned(end_token(self))
    /\ stdout' = <<>>
    /\ UNCHANGED <<pc, args, model_dir, self, trace>>

GetPadToken ==
    /\ pc = "ready"
    /\ call' = PropertyCall("pad_token")
    /\ ret' = Returned(pad_token(self))
    /\ stdout' = <<>>
    /\ UNCHANGED <<pc, args, model_dir, self, trace>>

GetModelVocabTokens ==
    /\ pc = "ready"
    /\ call' = PropertyCall("model_vocab_tokens")
    /\ ret' = Returned(model_vocab_tokens(self))
    /\ stdout' = <<>>
    /\ UNCHANGED <<pc, args, model_dir, self, trace>>

GetModelVocabIds ==
    /\ pc = "ready"
    /\ call' = PropertyCall("model_vocab_ids")
    /\ ret' = model_vocab_ids(self)
    /\ stdout' = <<>>
    /\ UNCHANGED <<pc, args, model_dir, self, trace>>

----------------------------------------------------------------------------
(* _process_sequences_and_tokens and _model_pass *)

\* the membership test made against the restricted model_vocab_tokens
RECURSIVE KeptTokenIds_Restricted(_, _)
KeptTokenIds_Restricted(obj, tokens_list) ==
    IF tokens_list = <<>> THEN <<>>
    ELSE LET token == Head(tokens_list)
             rest  == KeptTokenIds_Restricted(obj, Tail(tokens_list))
         IN IF ~In(token, model_vocab_tokens(obj))
            THEN rest
            ELSE <<token_to_id(obj, token)>> \o rest

\* lines 130-135: the IDs of the tokens that pass the membership test
RECURSIVE KeptTokenIds(_, _)
KeptTokenIds(obj, tokens_list) ==
    IF tokens_list = <<>> THEN <<>>
    ELSE LET token == Head(tokens_list)
             rest  == KeptTokenIds(obj, Tail(tokens_list))
         IN IF ~In(token, model_vocabulary(obj))
            THEN rest
            ELSE <<token_to_id(obj, token)>> \o rest

\* lines 131-133: the lines printed for the tokens that fail it
RECURSIVE TokenWarnings(_, _)
TokenWarnings(obj, tokens_list) ==
    IF tokens_list = <<>> THEN <<>>
    ELSE LET token == Head(tokens_list)
             rest  == TokenWarnings(obj, Tail(tokens_list))
         IN IF ~In(token, model_vocabulary(obj))
            THEN << <<"Warnings; token", token, "does not belong to model vocabulary">> >>
                     \o rest
            ELSE rest

\* the comparison made with the ID of the mask token
AttentionMask_MaskToken(obj, all_tokens) ==
    [i \in 1..Len(all_tokens) |->
        [j \in 1..Len(all_tokens[i]) |->
            IF all_tokens[i][j] # token_to_id(obj, mask_token(obj)) THEN 1 ELSE 0]]

\* line 145: 1 * (all_tokens != self.token_to_id(self.pad_token))
AttentionMask(obj, all_tokens) ==
    [i \in 1..Len(all_tokens) |->
        [j \in 1..Len(all_tokens[i]) |->
            IF all_tokens[i][j] # token_to_id(obj, pad_token(obj)) THEN 1 ELSE 0]]

\* line 146: torch.zeros(all_tokens.shape)
Zeros(all_tokens) ==
    [i \in 1..Len(all_tokens) |-> [j \in 1..Len(all_tokens[i]) |-> 0]]

\* lines 143-147
EncodedInputs(obj, all_tokens) ==
    [ input_ids      |-> all_tokens,
      attention_mask |-> AttentionMask(obj, all_tokens),
      token_type_ids |-> Zeros(all_tokens) ]

ProcessSequencesAndTokens(sequences_list, tokens_list) ==
    /\ pc = "ready"
    /\ LET all_tokens == BatchConvert(self["batch_converter"], sequences_list)
       IN ret' = Returned([ encoded_inputs |-> EncodedInputs(self, all_tokens),
                            all_tokens     |-> all_tokens,
                            tokens         |-> KeptTokenIds(self, tokens_list) ])
    /\ stdout' = TokenWarnings(self, tokens_list)
    /\ call' = [ op |-> "_process_sequences_and_tokens",
                 sequences_list |-> sequences_list,
                 tokens_list |-> tokens_list,
                 model_inputs |-> None ]
    /\ UNCHANGED <<pc, args, model_dir, self, trace>>

\* lines 166-175: logits and embeddings, on the cpu, by shape
ModelPassResult(obj, model_inputs) ==
    LET last_layer == obj["num_layers"] - 1
        model_outputs == Forward(obj["model"], model_inputs.input_ids, {last_layer})
    IN [ logits     |-> [shape |-> model_outputs.logits, device |-> "cpu"],
         embeddings |-> [shape |-> model_outputs.representations[last_layer],
                         device |-> "cpu"] ]

\* _model_pass on the inputs the last _process_sequences_and_tokens returned
ModelPass ==
    /\ pc = "ready"
    /\ call.op = "_process_sequences_and_tokens"
    /\ ret.exc = ""
    /\ ret' = Returned(ModelPassResult(self, ret.value.encoded_inputs))
    /\ call' = [call EXCEPT !.op = "_model_pass",
                            !.model_inputs = Some(ret.value.encoded_inputs)]
    /\ stdout' = <<>>
    /\ UNCHANGED <<pc, args, model_dir, self, trace>>

----------------------------------------------------------------------------
(* Construction and the properties *)

Init ==
    /\ pc = "start"
    /\ args \in [model_dir : ModelDirInputs, device : Devices, multi_gpu : BOOLEAN]
    /\ model_dir = args.model_dir
    /\ self = NewObject
    /\ stdout = <<>>
    /\ trace = <<>>
    /\ call = NoCall
    /\ ret = NoReturn

Next ==
    \/ Validate
    \/ SuperInit
    \/ LoadModel
    \/ ReadDims
    \/ PlaceModel
    \/ SetBatchConverter
    \/ GetModelProperty
    \/ GetBeginToken
    \/ GetEndToken
    \/ GetPadToken
    \/ GetModelVocabTokens
    \/ GetModelVocabIds

Spec == Init /\ [][Next]_vars

----------------------------------------------------------------------------
(* The two methods, on a constructed wrapper *)

\* the sequences a caller passes: the prefixes, up to MaxSeqLen residues and
\* the empty one included, of the protein LAGLAG...
Protein(n) == [j \in 1..n |-> StandardToks[((j - 1) % Len(StandardToks)) + 1]]

SequenceInputs == {Protein(n) : n \in 0..MaxSeqLen}

\* batches of 1..MaxSeqs sequences
SequenceLists == SeqsUpTo(SequenceInputs, MaxSeqs) \ {<<>>}

TokenLists == SeqsUpTo(TokenInputs, MaxTokens)

\* the object __init__ leaves for arguments a
ConstructedObject(a, vtl) ==
    LET name   == ValidatedModelDir(a.model_dir)
        o1     == TransformersWrapperInit(NewObject, name, a.device, a.multi_gpu, vtl)
        loaded == LoadModelAndAlphabet(name)
        o2     == SetAttr(SetAttr(o1, "model", loaded.model), "alphabet", loaded.alphabet)
        o3     == SetAttr(SetAttr(o2, "num_layers", o2["model"].num_layers),
                          "hidden_size", o2["model"].embed_dim)
        o4     == SetAttr(o3, "model",
                          PlacedModel(o3["model"], o3["multi_gpu"], o3["_device"]))
    IN SetAttr(o4, "batch_converter", GetBatchConverter(o4["alphabet"]))

\* the calls __init__ makes for arguments a
ConstructedTrace(a) ==
    LET name == ValidatedModelDir(a.model_dir)
    IN << <<"TransformersWrapper.__init__", name>>,
          <<"load_model_and_alphabet", name>>,
          <<"read", "model.num_layers">>,
          <<"read", "model.args.embed_dim">> >>
       \o PlacingCalls(a.multi_gpu, a.device)
       \o << <<"get_batch_converter", "alphabet">> >>

\* the restriction of the vocabulary the methods are run under
EncodeVocabTokenLists == {None, Some(<<"L">>)}

InitEncode ==
    /\ pc = "ready"
    /\ args \in [model_dir : ModelDirInputs, device : Devices, multi_gpu : BOOLEAN]
    /\ model_dir = ValidatedModelDir(args.model_dir)
    /\ \E vtl \in EncodeVocabTokenLists : self = ConstructedObject(args, vtl)
    /\ stdout = <<>>
    /\ trace = ConstructedTrace(args)
    /\ call = NoCall
    /\ ret = NoReturn

\* One batch per behaviour: neither method assigns a field of the object
\* (MethodsKeepObject), so a later batch would start from the same object.
NextEncode ==
    \/ /\ call = NoCall
       /\ \E sequences_list \in SequenceLists, tokens_list \in TokenLists :
             ProcessSequencesAndTokens(sequences_list, tokens_list)
    \/ ModelPass

SpecEncode == InitEncode /\ [][NextEncode]_vars

MethodsKeepObject == [][self' = self /\ pc' = pc /\ trace' = trace]_vars

\* Spec's constructed wrappers are the ones SpecEncode starts from
ReadyIsConstructed ==
    pc = "ready" =>
        /\ self = ConstructedObject(args, self["vocab_token_list"])
        /\ trace = ConstructedTrace(args)
        /\ model_dir = ValidatedModelDir(args.model_dir)

----------------------------------------------------------------------------
(* Claims *)

EventsOf(op) == {i \in 1..Len(trace) : trace[i][1] = op}

\* what __init__ has printed: stdout, until a method call replaces it
ConstructorOutput == IF call = NoCall THEN Some(stdout) ELSE None

\* C1: a model_dir outside esm_list is replaced by DEFAULT_MODEL, with one
\* printed warning and no exception: the base-class constructor and
\* load_model_and_alphabet both get DEFAULT_MODEL; a model_dir of esm_list
\* is passed unchanged to both, and nothing is printed.
C1_ModelNameFallback ==
    LET member   == args.model_dir \in Range(esm_list)
        expected == IF member THEN args.model_dir ELSE "esm1_t34_670M_UR100"
    IN /\ pc # "raised"
       /\ \A i \in EventsOf("TransformersWrapper.__init__") \cup
                   EventsOf("load_model_and_alphabet") : trace[i][2] = expected
       /\ pc = "ready" =>
            /\ Cardinality(EventsOf("TransformersWrapper.__init__")) = 1
            /\ Cardinality(EventsOf("load_model_and_alphabet")) = 1
            /\ self["model"].name = expected
       /\ (pc # "start" /\ ConstructorOutput # None) =>
            IF member THEN stdout = <<>>
            ELSE /\ Len(stdout) = 1
                 /\ stdout[1][2] = args.model_dir
                 /\ stdout[1][3] = "esm1_t34_670M_UR100"

\* C1's case: an unrecognized name, constructed
C1_Witness ==
    /\ pc = "ready"
    /\ args.model_dir = "my_model"
    /\ ConstructorOutput = Some(stdout) /\ Len(stdout) = 1
    /\ trace[1] = <<"TransformersWrapper.__init__", "esm1_t34_670M_UR100">>

Processed == call.op = "_process_sequences_and_tokens"

\* the whole vocabulary of the wrapper's alphabet, as a set
WholeVocabulary == Range(self["alphabet"].all_toks)

\* C2: the third result of _process_sequences_and_tokens holds exactly the
\* IDs of the tokens of tokens_list that belong to the whole model
\* vocabulary, in their order and with duplicates; each other token gives
\* one printed warning and is dropped; no exception is raised; the
\* restricted vocab_token_list plays no part.
C2_TokensFilteredByWholeVocabulary ==
    Processed =>
        LET InVoc(t) == t \in WholeVocabulary
            kept     == SelectSeq(call.tokens_list, InVoc)
            dropped  == SelectSeq(call.tokens_list, LAMBDA t : ~InVoc(t))
        IN /\ ret.exc = ""
           /\ Len(ret.value.tokens) = Len(kept)
           /\ \A k \in 1..Len(kept) :
                 /\ ret.value.tokens[k] \in 0..(Len(self["alphabet"].all_toks) - 1)
                 /\ self["alphabet"].all_toks[ret.value.tokens[k] + 1] = kept[k]
           /\ Len(stdout) = Len(dropped)
           /\ \A k \in 1..Len(dropped) : stdout[k][2] = dropped[k]

\* C2's case: a vocabulary token outside the restricted list is kept and a
\* token outside the vocabulary is dropped
C2_Witness ==
    /\ Processed
    /\ self["vocab_token_list"] = Some(<<"L">>)
    /\ call.tokens_list = <<"A", "J">>
    /\ Len(ret.value.tokens) = 1
    /\ Len(stdout) = 1

\* C3 (as claimed): model_vocab_tokens returns vocab_token_list whenever it
\* is not None, the empty list included, and alphabet.all_toks only when it
\* is None; the list returned is a subset of the model vocabulary.
C3_VocabTokensSubsetOfVocabulary ==
    (pc = "ready" /\ call.op = "model_vocab_tokens") =>
        /\ ret.exc = ""
        /\ self["vocab_token_list"] # None => ret.value = self["vocab_token_list"][1]
        /\ self["vocab_token_list"] = None => ret.value = self["alphabet"].all_toks
        /\ Range(ret.value) \subseteq WholeVocabulary

\* C3, the part the code keeps: which list is returned
C3_Selection ==
    (pc = "ready" /\ call.op = "model_vocab_tokens") =>
        /\ ret.exc = ""
        /\ self["vocab_token_list"] # None => ret.value = self["vocab_token_list"][1]
        /\ self["vocab_token_list"] = None => ret.value = self["alphabet"].all_toks

\* C4 (as claimed): model_vocab_ids is a list as long as model_vocab_tokens
\* whose i-th element is the ID of the i-th token, for every
\* vocab_token_list, None or a list of tokens; its elements are vocabulary
\* IDs.
C4_VocabIdsMatchVocabTokens ==
    (pc = "ready" /\ call.op = "model_vocab_ids") =>
        LET toks == IF self["vocab_token_list"] # None
                    THEN self["vocab_token_list"][1]
                    ELSE self["alphabet"].all_toks
        IN /\ ret.exc = ""
           /\ Len(ret.value) = Len(toks)
           /\ \A i \in 1..Len(toks) :
                 /\ ret.value[i] \in 0..(Len(self["alphabet"].all_toks) - 1)
                 /\ self["alphabet"].all_toks[ret.value[i] + 1] = toks[i]

\* C4, the part the code keeps: a list that is returned is the list claimed
C4_WhenReturned ==
    (pc = "ready" /\ call.op = "model_vocab_ids") =>
        LET toks == IF self["vocab_token_list"] # None
                    THEN self["vocab_token_list"][1]
                    ELSE self["alphabet"].all_toks
        IN IF Range(toks) \subseteq WholeVocabulary
           THEN /\ ret.exc = ""
                /\ Len(ret.value) = Len(toks)
                /\ \A i \in 1..Len(toks) :
                      self["alphabet"].all_toks[ret.value[i] + 1] = toks[i]
           ELSE ret.exc = "KeyError"

Passed == call.op = "_model_pass"

\* C5 (as claimed): for a batch whose longest sequence has max_len_seqs
\* residues, _model_pass returns logits of shape
\* [num_seqs, max_len_seqs, vocab_size] and embeddings of shape
\* [num_seqs, max_len_seqs + 1, embedding_size].
C5_ShapesAsDocumented ==
    Passed =>
        LET num_seqs     == Len(call.sequences_list)
            max_len_seqs == MaxLen(call.sequences_list)
        IN /\ ret.exc = ""
           /\ ret.value.logits.shape = <<num_seqs, max_len_seqs, vocab_size(self)>>
           /\ ret.value.embeddings.shape =
                 <<num_seqs, max_len_seqs + 1, embeddings_size(self)>>

\* C5, what the code returns: logits and embeddings both have one position
\* per column of input_ids, max_len_seqs + 1 of them
C5_ShapesReturned ==
    Passed =>
        LET num_seqs     == Len(call.sequences_list)
            max_len_seqs == MaxLen(call.sequences_list)
        IN /\ ret.exc = ""
           /\ ret.value.logits.shape = <<num_seqs, max_len_seqs + 1, vocab_size(self)>>
           /\ ret.value.embeddings.shape =
                 <<num_seqs, max_len_seqs + 1, embeddings_size(self)>>

\* C6: for every accepted model, begin_token is "<cls>", end_token is the
\* empty string and model_property is num_sep_tokens=1, begin_token=True,
\* end_token=False: each flag is true exactly when its token is non-empty
\* and num_sep_tokens counts the tokens that are present.
C6_TokenMetadataConsistent ==
    pc = "ready" =>
        LET Count(b) == IF b THEN 1 ELSE 0
        IN /\ call.op = "begin_token" => ret = Returned("<cls>")
           /\ call.op = "end_token" => ret = Returned("")
           /\ call.op = "model_property" =>
                 /\ ret.exc = ""
                 /\ ret.value.num_sep_tokens = 1
                 /\ ret.value.begin_token = TRUE
                 /\ ret.value.end_token = FALSE
           /\ model_property(self).begin_token <=> (begin_token(self) # "")
           /\ model_property(self).end_token <=> (end_token(self) # "")
           /\ model_property(self).num_sep_tokens =
                 Count(begin_token(self) # "") + Count(end_token(self) # "")

\* C6's case: end_token read from a wrapper of the second alphabet family
C6_Witness ==
    /\ pc = "ready"
    /\ self["model_id"] = "esm1b_t33_650M_UR50S"
    /\ call.op = "end_token"
    /\ ret.value = ""

SameShape(a, b) ==
    /\ Len(a) = Len(b)
    /\ \A i \in 1..Len(a) : Len(a[i]) = Len(b[i])

\* C7: in the encoded inputs, attention_mask has the shape of input_ids and
\* is 1 exactly where the input ID differs from the ID of the pad token, 0
\* elsewhere; token_type_ids has the same shape and is 0 everywhere;
\* input_ids is the matrix returned as the second result.
C7_EncodedInputs ==
    Processed =>
        LET enc    == ret.value.encoded_inputs
            ids    == enc.input_ids
            pad    == self["alphabet"].all_toks[self["alphabet"].padding_idx + 1]
            pad_id == token_to_id(self, pad)
        IN /\ ids = ret.value.all_tokens
           /\ SameShape(enc.attention_mask, ids)
           /\ SameShape(enc.token_type_ids, ids)
           /\ \A i \in 1..Len(ids) : \A j \in 1..Len(ids[i]) :
                 /\ enc.attention_mask[i][j] \in {0, 1}
                 /\ enc.attention_mask[i][j] = 1 <=> ids[i][j] # pad_id
                 /\ enc.token_type_ids[i][j] = 0

\* C7's case: a batch with a padded row, so the mask has ones and a zero
C7_Witness ==
    /\ Processed
    /\ call.sequences_list = <<Protein(2), Protein(1)>>
    /\ ret.value.encoded_inputs.attention_mask = << <<1, 1, 1>>, <<1, 1, 0>> >>

Before(opA, opB) ==
    \A i \in EventsOf(opA) : \A j \in EventsOf(opB) : i < j

\* C8: the name is validated before the base-class constructor runs and
\* before the model is loaded; num_layers and hidden_size are read from the
\* loaded, unwrapped model before any DataParallel wrapping; the model is
\* wrapped exactly when multi_gpu (self.multi_gpu) is true; in both branches,
\* when construction ends the model is on the configured device
\* (self._device) and batch_converter is the loaded alphabet's.
C8_ConstructionOrder ==
    /\ \A i \in EventsOf("TransformersWrapper.__init__") \cup
                EventsOf("load_model_and_alphabet") :
          /\ trace[i][2] \in Range(esm_list)
          /\ pc # "start"
    /\ Before("TransformersWrapper.__init__", "load_model_and_alphabet")
    /\ Before("load_model_and_alphabet", "read")
    /\ Before("read", "DataParallel")
    /\ Before("read", "to")
    /\ EventsOf("DataParallel") # {} =>
          /\ Cardinality(EventsOf("read")) = 2
          /\ self["num_layers"] = NumLayers(self["model"].name)
          /\ self["hidden_size"] = EmbedDim(self["model"].name)
    /\ pc \in {"converter", "ready"} =>
          /\ self["model"].data_parallel = self["multi_gpu"]
          /\ (EventsOf("DataParallel") # {}) = self["multi_gpu"]
          /\ self["model"].device = self["_device"]
          /\ trace[Len(trace) - (IF pc = "ready" THEN 1 ELSE 0)] = <<"to", self["_device"]>>
    /\ pc = "ready" =>
          /\ self["batch_converter"].alphabet = Alphabet(self["model"].name)
          /\ trace[Len(trace)][1] = "get_batch_converter"

\* C8's case: construction ended with the model wrapped and moved
C8_Witness ==
    /\ pc = "ready"
    /\ self["multi_gpu"]
    /\ self["_device"] = "cuda"
    /\ self["model"].data_parallel
    /\ self["model"].device = "cuda"

====
